---------------------------- MODULE Spec2Model ----------------------------
(***************************************************************************)
(* Model of the AI-services routes of Comet                               *)
(* (src/ai-services/src/api/routes.py): the generate-tests handler         *)
(* (function-name extraction and test-scaffold rendering), the             *)
(* analyze-failures handler (keyword classification) and the HTTP          *)
(* exception handler (src/ai-services/src/core/exceptions.py).             *)
(*                                                                         *)
(* A Python str is a sequence of one-character strings, so that split,     *)
(* strip, lower, slicing and the `in` operator are computed character by   *)
(* character as Python computes them.                                      *)
(***************************************************************************)
EXTENDS Integers, Sequences, FiniteSets, TLC

VARIABLES pc, request, functions, perLine, response

vars == <<pc, request, functions, perLine, response>>

(***************************************************************************)
(* Bounds of the explored inputs.                                          *)
(***************************************************************************)
\* number of declaration lines that follow the first line of a source text
MaxExtra == 7
\* number of pieces an error message is assembled from
MaxPieces == 4
\* length of the filler piece of an error message
FillerLen == 100

(***************************************************************************)
(* Program constants.                                                      *)
(***************************************************************************)
\* routes.py:106  functions[:5]
MaxTests == 5
\* routes.py:188  error_message[:200]
TruncLen == 200

\* Python None; no str equals it, since every element of a str is one character
None == <<"None">>

(***************************************************************************)
(* Python str operations.                                                  *)
(***************************************************************************)
MinOf(S) == CHOOSE i \in S : \A j \in S : i <= j

MaxOf(S) == CHOOSE i \in S : \A j \in S : j <= i

UpperCase == <<"A","B","C","D","E","F","G","H","I","J","K","L","M","N","O","P","Q","R","S","T","U","V","W","X","Y","Z">>

LowerCase == <<"a","b","c","d","e","f","g","h","i","j","k","l","m","n","o","p","q","r","s","t","u","v","w","x","y","z">>

LowerOf == [c \in {UpperCase[i] : i \in 1..26} |->
              LowerCase[CHOOSE i \in 1..26 : UpperCase[i] = c]]

\* str.lower()
Lower(s) == [i \in 1..Len(s) |-> IF s[i] \in DOMAIN LowerOf THEN LowerOf[s[i]] ELSE s[i]]

StartsAt(s, pat, i) == \A j \in 1..Len(pat) : s[i + j - 1] = pat[j]

\* pat in s
Contains(s, pat) == \E i \in 1..(Len(s) - Len(pat) + 1) : StartsAt(s, pat, i)

\* index of the first occurrence of pat in s, 0 when there is none
Find(s, pat) ==
    LET occ == {i \in 1..(Len(s) - Len(pat) + 1) : StartsAt(s, pat, i)}
    IN  IF occ = {} THEN 0 ELSE MinOf(occ)

\* s.split(sep): the parts between successive non-overlapping occurrences of sep
RECURSIVE Split(_, _)
Split(s, sep) ==
    LET i == Find(s, sep)
    IN  IF i = 0 THEN <<s>>
        ELSE <<SubSeq(s, 1, i - 1)>> \o Split(SubSeq(s, i + Len(sep), Len(s)), sep)

Whitespace == {" ", "\t", "\n", "\r", "\f"}

\* s.strip()
Strip(s) ==
    LET idx == {i \in 1..Len(s) : s[i] \notin Whitespace}
    IN  IF idx = {} THEN <<>> ELSE SubSeq(s, MinOf(idx), MaxOf(idx))

\* s[:n]
Slice(s, n) == SubSeq(s, 1, IF Len(s) < n THEN Len(s) ELSE n)

RECURSIVE Flatten(_)
Flatten(ss) == IF ss = <<>> THEN <<>> ELSE Head(ss) \o Flatten(Tail(ss))

(***************************************************************************)
(* generate_tests: extraction of the function names (routes.py:81-100).    *)
(***************************************************************************)
WebLanguages == {<<"j","a","v","a","s","c","r","i","p","t">>, <<"t","y","p","e","s","c","r","i","p","t">>, <<"j","s","x">>, <<"t","s","x">>}

\* the tag looked up in the text of a web language instead of in the list
IsWebLanguage_Substring(language) == \E w \in WebLanguages : Contains(w, Lower(language))

\* routes.py:86
IsWebLanguage(language) == Lower(language) \in WebLanguages

\* routes.py:89-94: the names appended for a stripped line that holds 'function'
FunctionBranch(line) ==
    LET parts == Split(line, <<"f","u","n","c","t","i","o","n">>)
    IN  IF Len(parts) > 1
        THEN LET name == Strip(Split(Strip(parts[2]), <<"(">>)[1])
             IN  IF name # <<>> THEN <<name>> ELSE <<>>
        ELSE <<>>

\* routes.py:95-100: the names appended for a stripped line that holds 'const'
ConstBranch(line) ==
    LET parts == Split(line, <<"c","o","n","s","t">>)
    IN  IF Len(parts) > 1
        THEN LET name == Strip(Split(Strip(parts[2]), <<"=">>)[1])
             IN  IF name # <<>> THEN <<name>> ELSE <<>>
        ELSE <<>>

\* routes.py:87-100: the names one stripped line appends to functions
LineNames(line) ==
    IF Contains(line, <<"f","u","n","c","t","i","o","n">>) \/ (Contains(line, <<"c","o","n","s","t">>) /\ Contains(line, <<"=",">">>))
    THEN IF Contains(line, <<"f","u","n","c","t","i","o","n">>) THEN FunctionBranch(line)
         ELSE IF Contains(line, <<"c","o","n","s","t">>) THEN ConstBranch(line)
         ELSE <<>>
    ELSE <<>>

\* routes.py:81-100: for every line of the code, the names it appends
ExtractPerLine(code, language) ==
    LET code_lines == Split(code, <<"\n">>)
    IN  [i \in 1..Len(code_lines) |->
            IF IsWebLanguage(language) THEN LineNames(Strip(code_lines[i])) ELSE <<>>]

(***************************************************************************)
(* generate_tests: rendering (routes.py:103-172).  The body of a template  *)
(* is fixed text around the values substituted into it; testCode records   *)
(* the template and the substituted values.                                *)
(***************************************************************************)
Jest == <<"J","e","s","t">>

\* routes.py:107-136
JestTest(func_name, req) ==
    [fileName    |-> func_name \o <<".","t","e","s","t",".">> \o req.language,
     testCode    |-> [template |-> "jest", func_name |-> func_name],
     description |-> <<"G","e","n","e","r","a","t","e","d"," ","u","n","i","t"," ","t","e","s","t","s"," ","f","o","r"," ">> \o func_name \o <<" ","f","u","n","c","t","i","o","n">>,
     framework   |-> req.framework]

\* the loop of line 106 without the [:5] slice
JestTests_NoCap(funcs, req) ==
    IF req.framework = Jest
    THEN [i \in 1..Len(funcs) |-> JestTest(funcs[i], req)]
    ELSE <<>>

\* the framework compared without regard to case
JestTests_AnyCase(funcs, req) ==
    IF Lower(req.framework) = Lower(Jest)
    THEN LET kept == Slice(funcs, MaxTests)
         IN  [i \in 1..Len(kept) |-> JestTest(kept[i], req)]
    ELSE <<>>

\* routes.py:105-136
JestTests(funcs, req) ==
    IF req.framework = Jest
    THEN LET kept == Slice(funcs, MaxTests)
         IN  [i \in 1..Len(kept) |-> JestTest(kept[i], req)]
    ELSE <<>>

\* routes.py:140-165
GenericTest(req) ==
    [fileName    |-> <<"g","e","n","e","r","a","t","e","d",".","t","e","s","t",".">> \o req.language,
     testCode    |-> [template |-> "generic", module |-> Lower(req.framework)],
     description |-> <<"G","e","n","e","r","i","c"," ","t","e","s","t"," ","t","e","m","p","l","a","t","e"," ","-"," ","c","u","s","t","o","m","i","z","e"," ","f","o","r"," ","y","o","u","r"," ","n","e","e","d","s">>,
     framework   |-> req.framework]

\* str(e) of the AttributeError raised by request.framework.lower() on None
NoneLowerError == <<"'","N","o","n","e","T","y","p","e","'"," ","o","b","j","e","c","t"," ","h","a","s"," ","n","o"," ","a","t","t","r","i","b","u","t","e"," ","'","l","o","w","e","r","'">>

\* routes.py:139-140: with no test rendered the generic template is formatted, and
\* formatting it calls request.framework.lower(), which raises on None
FallbackRaises(tests, req) == tests = <<>> /\ req.framework = None

\* routes.py:139-165
WithFallback(tests, req) == IF tests = <<>> THEN <<GenericTest(req)>> ELSE tests

\* routes.py:167-172
GenerateTestsResponse(tests, req) ==
    [tests      |-> tests,
     totalTests |-> Len(tests),
     language   |-> req.language,
     framework  |-> req.framework]

\* routes.py:138-172: from the list tests of line 136 to the end of the try block;
\* ok = FALSE when an exception leaves the block
RenderFrom(tests, req) ==
    IF FallbackRaises(tests, req)
    THEN [ok |-> FALSE, error |-> NoneLowerError]
    ELSE [ok |-> TRUE, value |-> GenerateTestsResponse(WithFallback(tests, req), req)]

GenerateFailedPrefix == <<"T","e","s","t"," ","g","e","n","e","r","a","t","i","o","n"," ","f","a","i","l","e","d",":"," ">>

\* the except clause with the label of the analyze-failures handler
Catch_OtherLabel(r) ==
    IF r.ok
    THEN [raised |-> FALSE, value |-> r.value]
    ELSE [raised |-> TRUE,
          value |-> [status_code |-> 500,
                     detail |-> <<"F","a","i","l","u","r","e"," ","a","n","a","l","y","s","i","s"," ","f","a","i","l","e","d",":"," ">> \o r.error]]

\* routes.py:174-175: the except clause around the try block
Catch(r) ==
    IF r.ok
    THEN [raised |-> FALSE, value |-> r.value]
    ELSE [raised |-> TRUE,
          value |-> [status_code |-> 500,
                     detail |-> GenerateFailedPrefix \o r.error]]

\* routes.py:103-175: the handler from the extracted functions on
GenerateTests(funcs, req) == Catch(RenderFrom(JestTests(funcs, req), req))

(***************************************************************************)
(* analyze_failures (routes.py:180-232).                                   *)
(***************************************************************************)
\* routes.py:185  request.errorMessage or "Unknown error"
ErrorMessageOrDefault(errorMessage) ==
    IF errorMessage = None \/ errorMessage = <<>> THEN <<"U","n","k","n","o","w","n"," ","e","r","r","o","r">> ELSE errorMessage

AnalysisPrefix == <<"A","n","a","l","y","s","i","s"," ","o","f"," ","t","e","s","t"," ","f","a","i","l","u","r","e",":"," ">>

\* the analysis field without the slice
Analysis_Untruncated(error_message) == AnalysisPrefix \o error_message

\* routes.py:188
Analysis(error_message) ==
    AnalysisPrefix \o Slice(error_message, TruncLen)

\* routes.py:194-200
UndefinedResult ==
    [rootCause |-> "Undefined variable or function", severity |-> "high",
     suggestedFixes |-> <<"Check if all variables are properly defined before use",
                          "Verify function imports are correct",
                          "Ensure dependencies are installed">>]

\* routes.py:202-208
TimeoutResult ==
    [rootCause |-> "Test timeout", severity |-> "medium",
     suggestedFixes |-> <<"Increase test timeout value",
                          "Check for infinite loops or blocking operations",
                          "Verify async operations are properly awaited">>]

\* routes.py:210-216
AssertionResult ==
    [rootCause |-> "Assertion failure", severity |-> "medium",
     suggestedFixes |-> <<"Review expected vs actual values",
                          "Check test data setup",
                          "Verify function logic matches test expectations">>]

\* routes.py:189-191, 218-222
UnknownResult ==
    [rootCause |-> "Unknown", severity |-> "medium",
     suggestedFixes |-> <<"Review error message and stack trace",
                          "Check test setup and teardown",
                          "Verify test data and mocks are correct">>]

\* routes.py:193-222: the if/elif chain over error_message.lower()
ClassifyLowered(lowered) ==
    IF Contains(lowered, <<"u","n","d","e","f","i","n","e","d">>) THEN UndefinedResult
    ELSE IF Contains(lowered, <<"t","i","m","e","o","u","t">>) THEN TimeoutResult
    ELSE IF Contains(lowered, <<"a","s","s","e","r","t","i","o","n">>) \/ Contains(lowered, <<"e","x","p","e","c","t","e","d">>)
    THEN AssertionResult
    ELSE UnknownResult

\* the chain with 'time' as the keyword of the timeout rule
Classify_TimeKeyword(error_message) ==
    IF Contains(Lower(error_message), <<"u","n","d","e","f","i","n","e","d">>) THEN UndefinedResult
    ELSE IF Contains(Lower(error_message), <<"t","i","m","e">>) THEN TimeoutResult
    ELSE ClassifyLowered(Lower(error_message))

\* the chain run on the truncated text of the analysis field
Classify_Truncated(error_message) ==
    ClassifyLowered(Lower(Slice(error_message, TruncLen)))

\* routes.py:189-222
Classify(error_message) == ClassifyLowered(Lower(error_message))

\* routes.py:184-229
AnalyzeFailures(req) ==
    LET error_message == ErrorMessageOrDefault(req.errorMessage)
        c == Classify(error_message)
    IN  [analysis       |-> Analysis(error_message),
         suggestedFixes |-> c.suggestedFixes,
         rootCause      |-> c.rootCause,
         severity       |-> c.severity]

(***************************************************************************)
(* The requests explored.                                                  *)
(***************************************************************************)
Heads == {<<>>, <<"f","u","n","c","t","i","o","n"," ">>, <<"c","o","n","s","t"," ">>, <<"\t","e","x","p","o","r","t"," ","f","u","n","c","t","i","o","n"," ">>}

Names == {<<>>, <<"f","o","o">>, <<"f","u","n","c","t","i","o","n","F","o","o">>, <<"c","o","n","s","t","a","n","t">>}

Tails == {<<>>, <<"(",")">>, <<"(","x",")"," ","{"," ","r","e","t","u","r","n"," ","x"," ","}">>, <<" ","="," ","(","x",")"," ","=",">"," ","x"," ","+"," ","1">>, <<" ","="," ","(",")"," ","=",">"," ","1">>}

\* the first line of a source text
FirstLines == {h \o n \o t : h \in Heads, n \in Names, t \in Tails}

Letters == <<"a","b","c","d","e","f","g","h","i","j","k","l","m","n","o","p">>

\* the k-th following line declares the function named by the k-th letter
ExtraLine(k) ==
    IF k % 2 = 1 THEN <<"f","u","n","c","t","i","o","n"," ">> \o <<Letters[k]>> \o <<"(","x",")"," ","{","}">>
    ELSE <<" "," ","c","o","n","s","t"," ">> \o <<Letters[k]>> \o <<" ","="," ","(","x",")"," ","=",">"," ","x","\r">>

RECURSIVE ExtraLines(_)
ExtraLines(n) == IF n = 0 THEN <<>> ELSE ExtraLines(n - 1) \o <<"\n">> \o ExtraLine(n)

Codes == {first \o ExtraLines(n) : first \in FirstLines, n \in 0..MaxExtra}

Languages == {<<"j","a","v","a","s","c","r","i","p","t">>, <<"T","S","X">>, <<"p","y","t","h","o","n">>, <<"J","a","v","a">>}

\* GenerateTestsRequest.framework is Optional[str] with default "Jest" (routes.py:38)
Frameworks == {Jest, <<"j","e","s","t">>, <<"M","o","c","h","a">>, None}

GenerateRequests ==
    [endpoint : {"generate-tests"}, code : Codes, language : Languages,
     framework : Frameworks]

Filler == [i \in 1..FillerLen |-> "x"]

Pieces == {<<"u","n","d","e","f","i","n","e","d">>, <<"T","i","m","e","o","u","t">>, <<"A","S","S","E","R","T","I","O","N">>, <<" ","E","x","p","e","c","t","e","d"," ">>, Filler}

RECURSIVE PieceMessages(_)
PieceMessages(n) ==
    IF n = 0 THEN {<<>>}
    ELSE PieceMessages(n - 1) \cup {m \o p : m \in PieceMessages(n - 1), p \in Pieces}

ExampleMessages ==
    {<<"T","y","p","e","E","r","r","o","r",":"," ","x"," ","i","s"," ","u","n","d","e","f","i","n","e","d">>, <<"O","p","e","r","a","t","i","o","n"," ","t","i","m","e","d"," ","o","u","t"," ","a","f","t","e","r"," ","5","0","0","0","m","s">>,
     <<"E","x","p","e","c","t","e","d"," ","5"," ","b","u","t"," ","r","e","c","e","i","v","e","d"," ","3">>}

\* AnalyzeFailuresRequest.errorMessage is Optional[str] with default None (routes.py:59)
AnalyzeRequests ==
    [endpoint : {"analyze-failures"},
     errorMessage : {None} \cup ExampleMessages \cup PieceMessages(MaxPieces)]

(***************************************************************************)
(* The service: a request is received, its handler runs, an HTTPException  *)
(* it raises is turned into the error body, and the response is sent.      *)
(***************************************************************************)
NoRequest == [endpoint |-> "none"]

NoResponse == [status_code |-> 0]

Init ==
    /\ pc = "idle"
    /\ request = NoRequest
    /\ functions = <<>>
    /\ perLine = <<>>
    /\ response = NoResponse

ReceiveGenerate ==
    /\ pc = "idle"
    /\ \E req \in GenerateRequests : request' = req
    /\ pc' = "handling"
    /\ UNCHANGED <<functions, perLine, response>>

ReceiveAnalyze ==
    /\ pc = "idle"
    /\ \E req \in AnalyzeRequests : request' = req
    /\ pc' = "handling"
    /\ UNCHANGED <<functions, perLine, response>>

\* routes.py:71-175
generate_tests ==
    /\ pc = "handling"
    /\ request.endpoint = "generate-tests"
    /\ \E lines \in {ExtractPerLine(request.code, request.language)} :
       \E out \in {GenerateTests(Flatten(lines), request)} :
          /\ perLine' = lines
          /\ functions' = Flatten(lines)
          /\ IF out.raised
             THEN /\ pc' = "raised"
                  /\ response' = out.value
             ELSE /\ pc' = "responded"
                  /\ response' = [status_code |-> 200] @@ out.value
    /\ UNCHANGED request

\* routes.py:179-232
analyze_failures ==
    /\ pc = "handling"
    /\ request.endpoint = "analyze-failures"
    /\ response' = [status_code |-> 200] @@ AnalyzeFailures(request)
    /\ pc' = "responded"
    /\ UNCHANGED <<request, functions, perLine>>

\* exceptions.py:10-20; path is str(request.url), which the endpoint stands for
HttpErrorBody(exc, req) ==
    [status_code |-> exc.status_code,
     error       |-> "HTTP Error",
     detail      |-> exc.detail,
     path        |-> req.endpoint]

http_exception_handler ==
    /\ pc = "raised"
    /\ response' = HttpErrorBody(response, request)
    /\ pc' = "responded"
    /\ UNCHANGED <<request, functions, perLine>>

Send ==
    /\ pc = "responded"
    /\ pc' = "idle"
    /\ request' = NoRequest
    /\ functions' = <<>>
    /\ perLine' = <<>>
    /\ response' = NoResponse

Next ==
    \/ ReceiveGenerate
    \/ ReceiveAnalyze
    \/ generate_tests
    \/ analyze_failures
    \/ http_exception_handler
    \/ Send

Spec == Init /\ [][Next]_vars

NextGenerate ==
    \/ ReceiveGenerate
    \/ generate_tests
    \/ http_exception_handler
    \/ Send

\* the generate-tests endpoint alone
SpecGenerate == Init /\ [][NextGenerate]_vars

NextAnalyze ==
    \/ ReceiveAnalyze
    \/ analyze_failures
    \/ Send

\* the analyze-failures endpoint alone
SpecAnalyze == Init /\ [][NextAnalyze]_vars

(***************************************************************************)
(* Vocabulary of the properties.  It is stated on the text itself, without *)
(* the handlers' operators: a letter matches a keyword letter in either    *)
(* case, a cut is taken at the first occurrence.                           *)
(***************************************************************************)
GenerateDone == pc = "responded" /\ request.endpoint = "generate-tests"

AnalyzeDone == pc = "responded" /\ request.endpoint = "analyze-failures"

UpperOf == [c \in {LowerCase[i] : i \in 1..26} |->
              UpperCase[CHOOSE i \in 1..26 : LowerCase[i] = c]]

\* the character c is the keyword character k in lower or upper case
SameLetter(c, k) == c = k \/ (k \in DOMAIN UpperOf /\ c = UpperOf[k])

\* the lower-case keyword kw occurs in s in any mix of cases
HoldsKeyword(s, kw) ==
    \E i \in 1..(Len(s) - Len(kw) + 1) : \A j \in 1..Len(kw) : SameLetter(s[i + j - 1], kw[j])

\* the tag is the lower-case word w in any mix of cases
SameTag(tag, w) == Len(tag) = Len(w) /\ \A j \in 1..Len(w) : SameLetter(tag[j], w[j])

InWebSet(tag) == \E w \in WebLanguages : SameTag(tag, w)

\* the text after the first occurrence of kw in s (kw occurs in s)
AfterFirst(s, kw) == SubSeq(s, Find(s, kw) + Len(kw), Len(s))

\* the text before the first occurrence of kw in s, all of s when there is none
BeforeFirst(s, kw) == IF Find(s, kw) = 0 THEN s ELSE SubSeq(s, 1, Find(s, kw) - 1)

\* the stripped lines of the request's source text
SourceLines ==
    LET ls == Split(request.code, <<"\n">>) IN [i \in 1..Len(ls) |-> Strip(ls[i])]

\* the message the classifier works on when an absent message is replaced
MessageOrUnknown ==
    IF request.errorMessage = None THEN <<"U","n","k","n","o","w","n"," ","e","r","r","o","r">> ELSE request.errorMessage

\* the response is the single generic scaffold
OnlyGenericScaffold ==
    /\ response.status_code = 200
    /\ Len(response.tests) = 1
    /\ response.tests[1].fileName = <<"g","e","n","e","r","a","t","e","d",".","t","e","s","t",".">> \o request.language
    /\ response.tests[1].testCode.template = "generic"
    /\ response.totalTests = 1

\* the number of tests of the response rendered for a candidate
PerCandidateTests ==
    IF "tests" \in DOMAIN response
    THEN Cardinality({i \in 1..Len(response.tests) : response.tests[i].testCode.template = "jest"})
    ELSE 0

TimedOutMessage == <<"O","p","e","r","a","t","i","o","n"," ","t","i","m","e","d"," ","o","u","t"," ","a","f","t","e","r"," ","5","0","0","0","m","s">>

(***************************************************************************)
(* C1.  classify("Operation timed out after 5000ms") returns rootCause     *)
(* "Test timeout" with severity "medium".                                  *)
(***************************************************************************)
C1_TimedOutIsTimeout ==
    (AnalyzeDone /\ request.errorMessage = TimedOutMessage)
        => (response.rootCause = "Test timeout" /\ response.severity = "medium")

\* C1 as amended: classify("Operation timed out after 5000ms") returns rootCause
\* "Unknown" with severity "medium", because the message does not hold the word
\* "timeout"; a message is put in the timeout category only when it holds "timeout".
C1_TimedOutIsUnknown ==
    /\ (AnalyzeDone /\ request.errorMessage = TimedOutMessage)
          => (response.rootCause = "Unknown" /\ response.severity = "medium")
    /\ (AnalyzeDone /\ response.rootCause = "Test timeout")
          => HoldsKeyword(MessageOrUnknown, <<"t","i","m","e","o","u","t">>)

C1_Witness == AnalyzeDone /\ request.errorMessage = TimedOutMessage

(***************************************************************************)
(* C2.  The result is that of the first matching rule, in the order        *)
(* undefined, timeout, assertion or expected, unknown, matched without     *)
(* regard to case on the full message (an absent message being "Unknown    *)
(* error"), each rule with exactly 3 suggestions.                          *)
(***************************************************************************)
C2_FirstMatchOnFullMessage ==
    AnalyzeDone =>
        /\ Len(response.suggestedFixes) = 3
        /\ IF HoldsKeyword(MessageOrUnknown, <<"u","n","d","e","f","i","n","e","d">>)
           THEN response.rootCause = "Undefined variable or function"
                /\ response.severity = "high"
           ELSE IF HoldsKeyword(MessageOrUnknown, <<"t","i","m","e","o","u","t">>)
           THEN response.rootCause = "Test timeout" /\ response.severity = "medium"
           ELSE IF HoldsKeyword(MessageOrUnknown, <<"a","s","s","e","r","t","i","o","n">>)
                   \/ HoldsKeyword(MessageOrUnknown, <<"e","x","p","e","c","t","e","d">>)
           THEN response.rootCause = "Assertion failure" /\ response.severity = "medium"
           ELSE response.rootCause = "Unknown" /\ response.severity = "medium"
        /\ request.errorMessage = None => response.rootCause = "Unknown"

\* a message whose first 200 characters hold no keyword, with two keywords after them,
\* is given the earlier rule
C2_Witness ==
    /\ AnalyzeDone
    /\ request.errorMessage # None
    /\ Len(request.errorMessage) > TruncLen
    /\ \A kw \in {<<"u","n","d","e","f","i","n","e","d">>, <<"t","i","m","e","o","u","t">>, <<"a","s","s","e","r","t","i","o","n">>, <<"e","x","p","e","c","t","e","d">>} :
          ~HoldsKeyword(Slice(request.errorMessage, TruncLen), kw)
    /\ HoldsKeyword(request.errorMessage, <<"e","x","p","e","c","t","e","d">>)
    /\ HoldsKeyword(request.errorMessage, <<"u","n","d","e","f","i","n","e","d">>)
    /\ response.rootCause = "Undefined variable or function"

(***************************************************************************)
(* C3.  For a web-scripting language, every stripped line that holds       *)
(* `function` yields the text after the first `function`, cut before its   *)
(* first `(` and stripped, when that text is not empty.                    *)
(***************************************************************************)
FunctionCandidate(line) == Strip(BeforeFirst(AfterFirst(line, <<"f","u","n","c","t","i","o","n">>), <<"(">>))

C3_FunctionLineYieldsName ==
    (GenerateDone /\ InWebSet(request.language)) =>
        \A i \in 1..Len(SourceLines) :
            (Contains(SourceLines[i], <<"f","u","n","c","t","i","o","n">>) /\ FunctionCandidate(SourceLines[i]) # <<>>)
                => perLine[i] = <<FunctionCandidate(SourceLines[i])>>

(***************************************************************************)
(* C4.  For a web-scripting language, every stripped line that holds no    *)
(* `function` but both `const` and `=>` yields the text after `const`, cut *)
(* before the first `=` and stripped, when that text is not empty.         *)
(***************************************************************************)
ConstCandidate(line) == Strip(BeforeFirst(AfterFirst(line, <<"c","o","n","s","t">>), <<"=">>))

C4_ConstLineYieldsName ==
    (GenerateDone /\ InWebSet(request.language)) =>
        \A i \in 1..Len(SourceLines) :
            (/\ ~Contains(SourceLines[i], <<"f","u","n","c","t","i","o","n">>)
             /\ Contains(SourceLines[i], <<"c","o","n","s","t">>)
             /\ Contains(SourceLines[i], <<"=",">">>)
             /\ ConstCandidate(SourceLines[i]) # <<>>)
                => perLine[i] = <<ConstCandidate(SourceLines[i])>>

(***************************************************************************)
(* C5.  With framework "Jest" and n >= 1 candidates the response holds     *)
(* exactly min(n, 5) tests, totalTests = min(n, 5), the i-th test is named *)
(* "<i-th candidate>.test.<languageTag>"; no response holds more than 5    *)
(* per-candidate tests.                                                    *)
(***************************************************************************)
C5_JestCappedAtFive ==
    /\ (GenerateDone /\ request.framework = Jest /\ Len(functions) >= 1) =>
          LET n == IF Len(functions) < 5 THEN Len(functions) ELSE 5
          IN  /\ response.status_code = 200
              /\ Len(response.tests) = n
              /\ response.totalTests = n
              /\ \A i \in 1..n :
                    /\ response.tests[i].fileName
                          = functions[i] \o <<".","t","e","s","t",".">> \o request.language
                    /\ response.tests[i].testCode
                          = [template |-> "jest", func_name |-> functions[i]]
    /\ PerCandidateTests <= 5

C5_Witness ==
    /\ GenerateDone
    /\ request.framework = Jest
    /\ Len(functions) = 7
    /\ Len(response.tests) = 5
    /\ response.totalTests = 5

(***************************************************************************)
(* C6.  With no candidate and any framework the request model accepts (a   *)
(* string or null), the response is exactly the generic template, named    *)
(* "generated.test.<languageTag>", with totalTests = 1.                    *)
(***************************************************************************)
C6_NoCandidateGivesGeneric ==
    (GenerateDone /\ functions = <<>>) => OnlyGenericScaffold

AnalysisRest == SubSeq(response.analysis, Len(AnalysisPrefix) + 1, Len(response.analysis))

\* the analysis field is the prefix followed by the first 200 characters of m
AnalysisOf(m) ==
    /\ Len(response.analysis) >= Len(AnalysisPrefix)
    /\ SubSeq(response.analysis, 1, Len(AnalysisPrefix)) = AnalysisPrefix
    /\ Len(AnalysisRest) = (IF Len(m) < 200 THEN Len(m) ELSE 200)
    /\ \A i \in 1..Len(AnalysisRest) : AnalysisRest[i] = m[i]

C8_AnalysisOfMessage == AnalyzeDone => AnalysisOf(MessageOrUnknown)

\* C8 as amended: the analysis field is "Analysis of test failure: " followed by
\* exactly the first 200 characters of the error message (the whole message when
\* it is shorter), where "Unknown error" stands for a message that is absent or
\* empty.
C8_AnalysisOfMessageOrDefault ==
    AnalyzeDone =>
        AnalysisOf(IF request.errorMessage \in {None, <<>>}
                   THEN <<"U","n","k","n","o","w","n"," ","e","r","r","o","r">> ELSE request.errorMessage)

C8_Witness ==
    /\ AnalyzeDone
    /\ request.errorMessage # None
    /\ Len(request.errorMessage) > 200
    /\ Len(AnalysisRest) = 200

(***************************************************************************)
(* C9.  A generate-tests request ends either in a complete success         *)
(* response (tests, totalTests, language, framework) or in a 500 error     *)
(* whose detail is "Test generation failed: " followed by the message of   *)
(* the internal error; an internal error (a null framework) ends in the    *)
(* error and never in a response that carries tests.                       *)
(***************************************************************************)
CompleteSuccess ==
    /\ response.status_code = 200
    /\ DOMAIN response = {"status_code", "tests", "totalTests", "language", "framework"}
    /\ response.totalTests = Len(response.tests)
    /\ Len(response.tests) >= 1
    /\ response.language = request.language
    /\ response.framework = request.framework
    /\ request.framework # None

GenerationError ==
    /\ response.status_code = 500
    /\ "tests" \notin DOMAIN response
    /\ response.detail = GenerateFailedPrefix \o NoneLowerError
    /\ request.framework = None

C9_SuccessOrError ==
    /\ GenerateDone => ((CompleteSuccess \/ GenerationError)
                           /\ ~(CompleteSuccess /\ GenerationError))
    /\ pc = "raised" => (response.status_code = 500 /\ "tests" \notin DOMAIN response)
    /\ (GenerateDone /\ request.framework = None) => GenerationError

\* candidates were extracted before the error, and none of them is in the response
C9_Witness ==
    /\ GenerateDone
    /\ request.framework = None
    /\ Len(functions) >= 2
    /\ GenerationError

(***************************************************************************)
(* C10.  For a framework tag other than exactly "Jest" (so also "jest")    *)
(* and a non-empty candidate list, no per-candidate test is rendered: the  *)
(* response is exactly the generic scaffold, with totalTests = 1.          *)
(***************************************************************************)
C10_OtherFrameworkDropsCandidates ==
    (GenerateDone /\ request.framework \notin {Jest, None} /\ functions # <<>>) =>
        (OnlyGenericScaffold /\ PerCandidateTests = 0)

C10_Witness ==
    /\ GenerateDone
    /\ request.framework = <<"j","e","s","t">>
    /\ Len(functions) >= 2
    /\ OnlyGenericScaffold

=============================================================================
